---- MODULE Spec2Model ----
(***************************************************************************)
(* OAuth2 integration gateway (VectorShift backend): the authorization-    *)
(* code flow of the hubspot, notion and airtable integrations over the     *)
(* shared Redis store: state tokens, PKCE verifier and credential cache.   *)
(***************************************************************************)
EXTENDS Integers, Sequences, FiniteSets, TLC

VARIABLES
    store,   \* the Redis database: live key |-> [val, ttl]
    rng,     \* how many values secrets.token_urlsafe has produced so far
    served,  \* how many authorize requests have been served so far
    last,    \* the request being answered: its inputs and what it answers
    tasks    \* the requests served concurrently, each at its next cache or
             \* network call: a sequence of task records

vars == <<store, rng, served, last, tasks>>

(***************************************************************************)
(* Bounds of the model.                                                    *)
(***************************************************************************)
\* how many authorize requests are served in one behaviour
MaxAuthorize == 2
\* seconds by which one Tick advances the Redis clock
TimeStep == 300
\* how many requests are served concurrently in one behaviour
MaxTasks == 3
\* how many of them are callbacks
MaxCallbackTasks == 2
\* the records of one listing a provider's data API answers with
MaxBatch == 2
\* the pages of bases Airtable hands out before the last one
MaxPages == 3

\* user_id / org_id form fields (main.py declares them Form(...): required,
\* and FastAPI answers 422 to an empty form value, so they are non-empty)
Users == {"u1", "u2"}
Orgs == {"o1"}
\* the users whose requests are served concurrently
ConcurrentUsers == {"u1"}

(***************************************************************************)
(* Program constants.                                                      *)
(***************************************************************************)
STATE_TOKEN_EXPIRATION == 300
NOTION_EXPIRE == 600
AIRTABLE_EXPIRE == 600
\* TTL that Redis reports for a key without expiry
NoExpiry == -1

(***************************************************************************)
(* Python values and the texts that carry them.                            *)
(* A Python value is [type, items]; a dict's items is the function from    *)
(* its keys to its values.  A text is [fmt, val]: fmt says which decoder   *)
(* accepts it, val is the value the accepting decoder yields.              *)
(***************************************************************************)
None == "None"
PyDict(items) == [type |-> "dict", items |-> items]
PyStr(s) == [type |-> "str", items |-> <<s>>]
PyNone == [type |-> "none", items |-> <<>>]
PyList == [type |-> "list", items |-> <<>>]

\* dict.get(key): None when the key is missing
DictGet(d, key) == IF key \in DOMAIN d.items THEN d.items[key] ELSE None

\* Python truthiness of a string-or-None value
Falsy(x) == x = None \/ x = ""

NoneText == [fmt |-> "none", val |-> PyNone]
RawText(s) == [fmt |-> "raw", val |-> PyStr(s)]
Garbage == [fmt |-> "garbage", val |-> PyNone]

\* json.dumps(v)
JsonDumps(v) == [fmt |-> "json", val |-> v]
\* json.loads(t) succeeds exactly on JSON text (None raises TypeError, any
\* other text json.JSONDecodeError)
JsonLoadsError(t) ==
    IF t.fmt = "json" THEN "ok"
    ELSE IF t.fmt = "none" THEN "TypeError"
    ELSE "JSONDecodeError"
JsonLoads(t) == t.val

\* base64.urlsafe_b64encode(t.encode('utf-8')).decode('utf-8')
B64Encode(t) == [fmt |-> "b64", val |-> t]
\* base64.urlsafe_b64decode(t).decode('utf-8'): None raises TypeError; a text
\* that is no base64 of UTF-8 raises binascii.Error / UnicodeDecodeError, or
\* yields text json.loads refuses: a ValueError each time
B64DecodeError(t) ==
    IF t.fmt = "b64" THEN "ok"
    ELSE IF t.fmt = "none" THEN "TypeError"
    ELSE "ValueError"
B64Decode(t) == t.val

\* a token source that yields the same value at every call
TokenUrlsafeFixed(n) == "tok1"

\* secrets.token_urlsafe(32): the n-th value drawn; never the same twice
TokenUrlsafe(n) == "tok" \o ToString(n)

\* hashlib.sha256 of a text: its digest
Sha256(s) == [sha256 |-> s]
\* base64.urlsafe_b64encode(digest).decode('utf-8'): the 32 bytes of a digest
\* encode to 43 characters and one '=' of padding
UrlsafeB64encode(digest) == [b64 |-> digest, padding |-> "="]
\* an encoding that keeps its padding
KeepPadding(t) == t

\* .replace('=', '')
StripPadding(t) == [t EXCEPT !.padding = ""]

\* what a handler sends out: the authorization URL the caller is redirected
\* to, or the body of the POST to the provider's token endpoint
NoMessage == [kind |-> "none", items |-> << >>]
Url(items) == [kind |-> "url", items |-> items]
Post(items) == [kind |-> "post", items |-> items]

(***************************************************************************)
(* redis_client.py                                                         *)
(***************************************************************************)
RedisKey(integration, kind, org_id, user_id) ==
    integration \o "_" \o kind \o ":" \o org_id \o ":" \o user_id

\* SET without the EXPIRE that follows it
AddKeyValueNoExpire(st, key, value, expire) ==
    [k \in DOMAIN st \cup {key} |->
        IF k = key THEN [val |-> value, ttl |-> NoExpiry] ELSE st[k]]

\* SET key value (which discards an older TTL), then EXPIRE when expire is set
AddKeyValue(st, key, value, expire) ==
    LET afterSet == [k \in DOMAIN st \cup {key} |->
                        IF k = key THEN [val |-> value, ttl |-> NoExpiry]
                        ELSE st[k]]
    IN  IF expire # 0
        THEN [afterSet EXCEPT ![key].ttl = expire]
        ELSE afterSet

\* SET key value alone: the key holds the value and has no TTL
SetKey(st, key, value) ==
    [k \in DOMAIN st \cup {key} |->
        IF k = key THEN [val |-> value, ttl |-> NoExpiry] ELSE st[k]]

\* EXPIRE key seconds alone: nothing happens to a key that is not there
ExpireKey(st, key, expire) ==
    IF key \in DOMAIN st THEN [st EXCEPT ![key].ttl = expire] ELSE st

\* GET key: None when the key is not there
GetValue(st, key) == IF key \in DOMAIN st THEN st[key].val ELSE NoneText

\* DEL key
DeleteKey(st, key) == [k \in DOMAIN st \ {key} |-> st[k]]

\* `not value` of what GET returned
NoValue(t) == t.fmt = "none"

(***************************************************************************)
(* Requests and provider answers.                                          *)
(***************************************************************************)
Integrations == {"hubspot", "notion", "airtable"}

\* the token endpoint's answers: 200 with a token payload, or an error
TokenResponses ==
    { [status |-> 200, body |-> PyDict([access_token |-> "tok123"])],
      [status |-> 200, body |-> PyDict([access_token |-> "tok456"])],
      [status |-> 400, body |-> PyDict([error |-> "invalid_grant"])] }

\* a 200 answer whose JSON body is the empty object
EmptyResponses == { [status |-> 200, body |-> PyDict(<< >>)] }

\* no answer: the callback did not reach the token endpoint
NoResponse == [status |-> 0, body |-> PyNone]

\* the CSRF tokens a caller can present: those drawn so far, or a forged one
Tokens(n) == {TokenUrlsafe(k) : k \in 1..n} \cup {"forged"}

\* the complete state dictionaries
FullDicts(n) ==
    { PyDict([state |-> t, user_id |-> u, org_id |-> o]) :
        t \in Tokens(n), u \in Users, o \in Orgs }

\* state dictionaries that lack at least one of the three fields
PartialDicts ==
    { PyDict([f \in fs |-> d[f]]) :
        d \in { [state |-> "forged", user_id |-> u, org_id |-> o] :
                  u \in Users, o \in Orgs },
        fs \in (SUBSET {"state", "user_id", "org_id"}) \ {{"state", "user_id", "org_id"}} }

\* the encoding of a state dictionary that the integration hands out
Encode(integration, d) ==
    IF integration = "airtable" THEN B64Encode(JsonDumps(d)) ELSE JsonDumps(d)
\* the encoding another integration hands out
EncodeOther(integration, d) ==
    IF integration = "airtable" THEN JsonDumps(d) ELSE B64Encode(JsonDumps(d))

\* the state parameters that carry a token drawn so far
IssuedLooking(integration, n) ==
    { Encode(integration, d) : d \in {f \in FullDicts(n) : f.items.state # "forged"} }

\* request.query_params of a callback with a well-formed state: a complete
\* state dictionary in the integration's encoding with a code and no error;
\* the provider's error redirect, and a redirect without code, with no state
\* or one that looks issued
Requests(integration, n) ==
    [error : {None}, code : {"c1"},
     state : {Encode(integration, d) : d \in FullDicts(n)}]
        \cup [error : {None, "access_denied"}, code : {None},
              state : {NoneText} \cup IssuedLooking(integration, n)]

\* request.query_params of a callback with a malformed state: absent, not
\* decodable, an encoded value that is no object, a dictionary that lacks a
\* field, or a state in the encoding of another integration
MalformedRequests(integration, n) ==
    [error : {None}, code : {"c1"},
     state : {NoneText, Garbage, Encode(integration, PyList)}
                \cup { Encode(integration, d) : d \in PartialDicts }
                \cup { EncodeOther(integration, d) : d \in FullDicts(n) }]

(***************************************************************************)
(* config.py                                                               *)
(***************************************************************************)
\* the integrations CLIENT_CONFIGS has an entry for
CLIENT_CONFIGS == {"hubspot", "notion", "airtable"}
ClientId(integration) == integration \o ".client_id"
ClientSecret(integration) == integration \o ".client_secret"
RedirectUri(integration) ==
    "http://localhost:8000/integrations/" \o integration \o "/oauth2callback"

(***************************************************************************)
(* utils.py                                                                *)
(***************************************************************************)
\* what a handler answers: the store it leaves, the outcome, the fields
\* recorded about the request, and the message it sent out
Answer(st, outcome, validated, user_id, org_id, payload) ==
    [store |-> st, outcome |-> outcome, validated |-> validated,
     user_id |-> user_id, org_id |-> org_id, payload |-> payload,
     sent |-> NoMessage]

WithSent(a, message) == [a EXCEPT !.sent = message]

\* the record stored under a key that names user_id before org_id
GenerateAndStoreStateSwappedKey(st, n, integration, user_id, org_id) ==
    LET state_data == PyDict([state |-> TokenUrlsafe(n + 1),
                              user_id |-> user_id, org_id |-> org_id])
        encoded_state == JsonDumps(state_data)
        redis_key == RedisKey(integration, "state", user_id, org_id)
    IN  [store |-> AddKeyValue(st, redis_key, encoded_state, STATE_TOKEN_EXPIRATION),
         encoded_state |-> encoded_state]

GenerateAndStoreState(st, n, integration, user_id, org_id) ==
    LET state_data == PyDict([state |-> TokenUrlsafe(n + 1),
                              user_id |-> user_id, org_id |-> org_id])
        encoded_state == JsonDumps(state_data)
        redis_key == RedisKey(integration, "state", org_id, user_id)
    IN  [store |-> AddKeyValue(st, redis_key, encoded_state, STATE_TOKEN_EXPIRATION),
         encoded_state |-> encoded_state]

\* a check that a record is stored, without comparing the tokens
StateMatchesPresenceOnly(st, redis_key, original_state) ==
    ~NoValue(GetValue(st, redis_key))

\* a comparison that lets a token pass when no record is stored
StateMatchesAbsentOk(st, redis_key, original_state) ==
    LET saved_state == GetValue(st, redis_key)
    IN  \/ NoValue(saved_state)
        \/ original_state = DictGet(JsonLoads(saved_state), "state")

\* the comparison of the embedded CSRF token with the stored record's
StateMatches(st, redis_key, original_state) ==
    LET saved_state == GetValue(st, redis_key)
    IN  /\ ~NoValue(saved_state)
        /\ original_state = DictGet(JsonLoads(saved_state), "state")

ValidateState(st, integration, encoded_state) ==
    IF JsonLoadsError(encoded_state) = "JSONDecodeError"
    THEN [outcome |-> "InvalidStateFormat", user_id |-> None, org_id |-> None]
    ELSE IF JsonLoadsError(encoded_state) = "TypeError"
    THEN [outcome |-> "TypeError", user_id |-> None, org_id |-> None]
    ELSE LET state_data == JsonLoads(encoded_state) IN
    IF state_data.type # "dict"
    THEN [outcome |-> "AttributeError", user_id |-> None, org_id |-> None]
    ELSE LET original_state == DictGet(state_data, "state")
             user_id == DictGet(state_data, "user_id")
             org_id == DictGet(state_data, "org_id")
         IN
    IF Falsy(original_state) \/ Falsy(user_id) \/ Falsy(org_id)
    THEN [outcome |-> "MissingStateFields", user_id |-> user_id, org_id |-> org_id]
    ELSE IF ~StateMatches(st, RedisKey(integration, "state", org_id, user_id),
                          original_state)
    THEN [outcome |-> "StateMismatch", user_id |-> user_id, org_id |-> org_id]
    ELSE [outcome |-> "ok", user_id |-> user_id, org_id |-> org_id]

\* the integrations of the token-URL table
TokenUrlTable == {"hubspot", "notion", "airtable"}

\* CLIENT_CONFIGS[integration] is looked up before the token-URL table;
\* additional_params is accepted and has no part in the request body
ExchangeCodeForToken(integration, code, additional_params, resp) ==
    IF integration \notin CLIENT_CONFIGS
    THEN [outcome |-> "KeyError", token_response |-> PyNone, sent |-> NoMessage]
    ELSE IF integration \notin TokenUrlTable
    THEN [outcome |-> "UnsupportedIntegration", token_response |-> PyNone,
          sent |-> NoMessage]
    ELSE LET data == Post([grant_type |-> "authorization_code",
                           code |-> code,
                           client_id |-> ClientId(integration),
                           client_secret |-> ClientSecret(integration),
                           redirect_uri |-> RedirectUri(integration)])
         IN
    IF resp.status # 200
    THEN [outcome |-> "TokenExchangeFailed", token_response |-> PyNone,
          sent |-> data]
    ELSE [outcome |-> "ok", token_response |-> resp.body, sent |-> data]

\* a store that keeps a payload that is already there
StoreCredentialsKeepExisting(st, integration, user_id, org_id, credentials) ==
    LET redis_key == RedisKey(integration, "credentials", org_id, user_id)
    IN  IF redis_key \in DOMAIN st THEN st
        ELSE AddKeyValue(st, redis_key, JsonDumps(credentials),
                         STATE_TOKEN_EXPIRATION)

\* a store that writes the payload over the state record of the triple
StoreCredentialsOverState(st, integration, user_id, org_id, credentials) ==
    AddKeyValue(st, RedisKey(integration, "state", org_id, user_id),
                JsonDumps(credentials), STATE_TOKEN_EXPIRATION)

StoreCredentials(st, integration, user_id, org_id, credentials) ==
    AddKeyValue(st, RedisKey(integration, "credentials", org_id, user_id),
                JsonDumps(credentials), STATE_TOKEN_EXPIRATION)

\* a retrieval that leaves the key in the store
GetCredentialsNoDelete(st, integration, user_id, org_id) ==
    LET redis_key == RedisKey(integration, "credentials", org_id, user_id)
        credentials == GetValue(st, redis_key)
    IN  IF NoValue(credentials)
        THEN Answer(st, "CredentialsNotFound", FALSE, user_id, org_id, PyNone)
        ELSE IF JsonLoadsError(credentials) # "ok"
        THEN Answer(st, "InvalidCredentialsFormat", FALSE, user_id, org_id, PyNone)
        ELSE IF DOMAIN JsonLoads(credentials).items = {}
        THEN Answer(st, "InvalidCredentialsFormat", FALSE, user_id, org_id, PyNone)
        ELSE Answer(st, "ok", FALSE, user_id, org_id, JsonLoads(credentials))

GetCredentials(st, integration, user_id, org_id) ==
    LET redis_key == RedisKey(integration, "credentials", org_id, user_id)
        credentials == GetValue(st, redis_key)
    IN  IF NoValue(credentials)
        THEN Answer(st, "CredentialsNotFound", FALSE, user_id, org_id, PyNone)
        ELSE IF JsonLoadsError(credentials) # "ok"
        THEN Answer(st, "InvalidCredentialsFormat", FALSE, user_id, org_id, PyNone)
        ELSE IF DOMAIN JsonLoads(credentials).items = {}
        THEN Answer(st, "InvalidCredentialsFormat", FALSE, user_id, org_id, PyNone)
        ELSE Answer(DeleteKey(st, redis_key), "ok", FALSE, user_id, org_id,
                    JsonLoads(credentials))

(***************************************************************************)
(* integrations/base_integration.py, hubspot.py                            *)
(***************************************************************************)
\* BaseIntegration.authorize: the state is stored before the URL is built;
\* only hubspot has a URL, any other integration raises NotImplementedError
BaseAuthorize(st, n, integration, user_id, org_id) ==
    LET g == GenerateAndStoreState(st, n, integration, user_id, org_id)
    IN  [store |-> g.store, encoded_state |-> g.encoded_state,
         outcome |-> IF integration = "hubspot" THEN "ok" ELSE "NotImplementedError",
         auth_url |-> IF integration = "hubspot"
                      THEN Url([client_id |-> ClientId(integration),
                                redirect_uri |-> RedirectUri(integration),
                                state |-> g.encoded_state])
                      ELSE NoMessage]

\* BaseIntegration.get_additional_token_params
GetAdditionalTokenParams == PyNone

\* a callback that exchanges the code and does not store what it got
BaseOauth2callbackNoStore(st, integration, req, resp) ==
    IF ~Falsy(req.error)
    THEN Answer(st, "OAuthError", FALSE, None, None, PyNone)
    ELSE IF Falsy(req.code) \/ NoValue(req.state)
    THEN Answer(st, "MissingCodeOrState", FALSE, None, None, PyNone)
    ELSE LET v == ValidateState(st, integration, req.state) IN
    IF v.outcome # "ok"
    THEN Answer(st, v.outcome, FALSE, v.user_id, v.org_id, PyNone)
    ELSE LET x == ExchangeCodeForToken(integration, req.code,
                                       GetAdditionalTokenParams, resp) IN
    IF x.outcome # "ok"
    THEN WithSent(Answer(st, x.outcome, TRUE, v.user_id, v.org_id, PyNone), x.sent)
    ELSE WithSent(Answer(st, "ok", TRUE, v.user_id, v.org_id, x.token_response),
                  x.sent)

\* BaseIntegration.oauth2callback
BaseOauth2callback(st, integration, req, resp) ==
    IF ~Falsy(req.error)
    THEN Answer(st, "OAuthError", FALSE, None, None, PyNone)
    ELSE IF Falsy(req.code) \/ NoValue(req.state)
    THEN Answer(st, "MissingCodeOrState", FALSE, None, None, PyNone)
    ELSE LET v == ValidateState(st, integration, req.state) IN
    IF v.outcome # "ok"
    THEN Answer(st, v.outcome, FALSE, v.user_id, v.org_id, PyNone)
    ELSE LET x == ExchangeCodeForToken(integration, req.code,
                                       GetAdditionalTokenParams, resp) IN
    IF x.outcome # "ok"
    THEN WithSent(Answer(st, x.outcome, TRUE, v.user_id, v.org_id, PyNone), x.sent)
    ELSE WithSent(Answer(StoreCredentials(st, integration, v.user_id, v.org_id,
                                          x.token_response),
                         "ok", TRUE, v.user_id, v.org_id, x.token_response),
                  x.sent)

(***************************************************************************)
(* integrations/notion.py                                                  *)
(***************************************************************************)
authorize_notion(st, n, user_id, org_id) ==
    LET state_data == PyDict([state |-> TokenUrlsafe(n + 1),
                              user_id |-> user_id, org_id |-> org_id])
        encoded_state == JsonDumps(state_data)
    IN  [store |-> AddKeyValue(st, RedisKey("notion", "state", org_id, user_id),
                               encoded_state, NOTION_EXPIRE),
         encoded_state |-> encoded_state,
         auth_url |-> Url([client_id |-> ClientId("notion"),
                           redirect_uri |-> RedirectUri("notion"),
                           state |-> encoded_state])]

\* the JSON body of the POST to Notion's token endpoint
NotionTokenRequest(code) ==
    Post([grant_type |-> "authorization_code",
          code |-> code,
          redirect_uri |-> RedirectUri("notion")])

oauth2callback_notion(st, req, resp) ==
    IF ~Falsy(req.error)
    THEN Answer(st, "OAuthError", FALSE, None, None, PyNone)
    ELSE IF JsonLoadsError(req.state) # "ok"
    THEN Answer(st, JsonLoadsError(req.state), FALSE, None, None, PyNone)
    ELSE LET state_data == JsonLoads(req.state) IN
    IF state_data.type # "dict"
    THEN Answer(st, "AttributeError", FALSE, None, None, PyNone)
    ELSE LET original_state == DictGet(state_data, "state")
             user_id == DictGet(state_data, "user_id")
             org_id == DictGet(state_data, "org_id")
             state_key == RedisKey("notion", "state", org_id, user_id)
         IN
    IF ~StateMatches(st, state_key, original_state)
    THEN Answer(st, "StateMismatch", FALSE, user_id, org_id, PyNone)
    ELSE \* the POST and the deletion of the state run together; the answer's
         \* status is not looked at before its body is stored
         WithSent(Answer(AddKeyValue(DeleteKey(st, state_key),
                                     RedisKey("notion", "credentials", org_id, user_id),
                                     JsonDumps(resp.body), NOTION_EXPIRE),
                         "ok", TRUE, user_id, org_id, resp.body),
                  NotionTokenRequest(req.code))

get_notion_credentials(st, user_id, org_id) ==
    LET redis_key == RedisKey("notion", "credentials", org_id, user_id)
        credentials == GetValue(st, redis_key)
    IN  IF NoValue(credentials)
        THEN Answer(st, "CredentialsNotFound", FALSE, user_id, org_id, PyNone)
        ELSE IF JsonLoadsError(credentials) # "ok"
        THEN Answer(st, JsonLoadsError(credentials), FALSE, user_id, org_id, PyNone)
        ELSE IF DOMAIN JsonLoads(credentials).items = {}
        THEN Answer(st, "CredentialsNotFound", FALSE, user_id, org_id, PyNone)
        ELSE Answer(DeleteKey(st, redis_key), "ok", FALSE, user_id, org_id,
                    JsonLoads(credentials))

(***************************************************************************)
(* integrations/airtable.py                                                *)
(***************************************************************************)
\* an authorize call that uses the verifier itself as challenge
authorize_airtable_plain(st, n, user_id, org_id) ==
    LET state_data == PyDict([state |-> TokenUrlsafe(n + 1),
                              user_id |-> user_id, org_id |-> org_id])
        encoded_state == B64Encode(JsonDumps(state_data))
        code_verifier == TokenUrlsafe(n + 2)
        withState == AddKeyValue(st, RedisKey("airtable", "state", org_id, user_id),
                                 JsonDumps(state_data), AIRTABLE_EXPIRE)
    IN  [store |-> AddKeyValue(withState,
                               RedisKey("airtable", "verifier", org_id, user_id),
                               RawText(code_verifier), AIRTABLE_EXPIRE),
         encoded_state |-> encoded_state,
         auth_url |-> Url([client_id |-> ClientId("airtable"),
                           redirect_uri |-> RedirectUri("airtable"),
                           state |-> encoded_state,
                           code_challenge |-> RawText(code_verifier),
                           code_challenge_method |-> "plain"])]

authorize_airtable(st, n, user_id, org_id) ==
    LET state_data == PyDict([state |-> TokenUrlsafe(n + 1),
                              user_id |-> user_id, org_id |-> org_id])
        encoded_state == B64Encode(JsonDumps(state_data))
        code_verifier == TokenUrlsafe(n + 2)
        code_challenge == StripPadding(UrlsafeB64encode(Sha256(code_verifier)))
        withState == AddKeyValue(st, RedisKey("airtable", "state", org_id, user_id),
                                 JsonDumps(state_data), AIRTABLE_EXPIRE)
    IN  [store |-> AddKeyValue(withState,
                               RedisKey("airtable", "verifier", org_id, user_id),
                               RawText(code_verifier), AIRTABLE_EXPIRE),
         encoded_state |-> encoded_state,
         auth_url |-> Url([client_id |-> ClientId("airtable"),
                           redirect_uri |-> RedirectUri("airtable"),
                           state |-> encoded_state,
                           code_challenge |-> code_challenge,
                           code_challenge_method |-> "S256"])]

\* the form body of the POST to Airtable's token endpoint
AirtableTokenRequest(code, code_verifier) ==
    Post([grant_type |-> "authorization_code",
          code |-> code,
          redirect_uri |-> RedirectUri("airtable"),
          client_id |-> ClientId("airtable"),
          code_verifier |-> code_verifier])

oauth2callback_airtable(st, req, resp) ==
    IF ~Falsy(req.error)
    THEN Answer(st, "OAuthError", FALSE, None, None, PyNone)
    ELSE IF B64DecodeError(req.state) # "ok"
    THEN Answer(st, B64DecodeError(req.state), FALSE, None, None, PyNone)
    ELSE IF JsonLoadsError(B64Decode(req.state)) # "ok"
    THEN Answer(st, "ValueError", FALSE, None, None, PyNone)
    ELSE LET state_data == JsonLoads(B64Decode(req.state)) IN
    IF state_data.type # "dict"
    THEN Answer(st, "AttributeError", FALSE, None, None, PyNone)
    ELSE LET original_state == DictGet(state_data, "state")
             user_id == DictGet(state_data, "user_id")
             org_id == DictGet(state_data, "org_id")
             state_key == RedisKey("airtable", "state", org_id, user_id)
             verifier_key == RedisKey("airtable", "verifier", org_id, user_id)
         IN
    IF ~StateMatches(st, state_key, original_state)
    THEN Answer(st, "StateMismatch", FALSE, user_id, org_id, PyNone)
    ELSE WithSent(Answer(AddKeyValue(DeleteKey(DeleteKey(st, state_key), verifier_key),
                                     RedisKey("airtable", "credentials", org_id, user_id),
                                     JsonDumps(resp.body), AIRTABLE_EXPIRE),
                         "ok", TRUE, user_id, org_id, resp.body),
                  AirtableTokenRequest(req.code, GetValue(st, verifier_key)))

get_airtable_credentials(st, user_id, org_id) ==
    LET redis_key == RedisKey("airtable", "credentials", org_id, user_id)
        credentials == GetValue(st, redis_key)
    IN  IF NoValue(credentials)
        THEN Answer(st, "CredentialsNotFound", FALSE, user_id, org_id, PyNone)
        ELSE IF JsonLoadsError(credentials) # "ok"
        THEN Answer(st, JsonLoadsError(credentials), FALSE, user_id, org_id, PyNone)
        ELSE Answer(DeleteKey(st, redis_key), "ok", FALSE, user_id, org_id,
                    JsonLoads(credentials))

(***************************************************************************)
(* The three entry points per integration, as main.py routes them.         *)
(***************************************************************************)
Authorize(st, n, integration, user_id, org_id) ==
    IF integration = "hubspot" THEN BaseAuthorize(st, n, "hubspot", user_id, org_id)
    ELSE IF integration = "notion"
    THEN [outcome |-> "ok"] @@ authorize_notion(st, n, user_id, org_id)
    ELSE [outcome |-> "ok"] @@ authorize_airtable(st, n, user_id, org_id)

\* values drawn from secrets.token_urlsafe by one authorize call
Draws(integration) == IF integration = "airtable" THEN 2 ELSE 1

\* handlers that do not look at the provider's error parameter
CallbackIgnoringError(st, integration, req, resp) ==
    LET r == [req EXCEPT !.error = None]
    IN  IF integration = "hubspot" THEN BaseOauth2callback(st, "hubspot", r, resp)
        ELSE IF integration = "notion" THEN oauth2callback_notion(st, r, resp)
        ELSE oauth2callback_airtable(st, r, resp)

Callback(st, integration, req, resp) ==
    IF integration = "hubspot" THEN BaseOauth2callback(st, "hubspot", req, resp)
    ELSE IF integration = "notion" THEN oauth2callback_notion(st, req, resp)
    ELSE oauth2callback_airtable(st, req, resp)

Credentials(st, integration, user_id, org_id) ==
    IF integration = "hubspot" THEN GetCredentials(st, "hubspot", user_id, org_id)
    ELSE IF integration = "notion" THEN get_notion_credentials(st, user_id, org_id)
    ELSE get_airtable_credentials(st, user_id, org_id)

(***************************************************************************)
(* The state machine: one request is served at a time; last holds the      *)
(* request being answered until Respond hands the answer to the caller.    *)
(***************************************************************************)
\* before: what the store held, before the request, under the key the request
\* writes; expired: the keys that ran out during the step
Last(op, integration, user_id, org_id, req, status, outcome, validated, payload, before, expired, sent) ==
    [op |-> op, integration |-> integration, user_id |-> user_id,
     org_id |-> org_id, state |-> req.state, code |-> req.code,
     error |-> req.error, status |-> status, outcome |-> outcome,
     validated |-> validated, payload |-> payload, before |-> before,
     expired |-> expired, sent |-> sent, additional_params |-> PyNone]

NoRequest == [error |-> None, code |-> None, state |-> NoneText]

Idle == Last("none", None, None, None, NoRequest, 0, "ok", FALSE, PyNone,
             NoneText, {}, NoMessage)

Init ==
    /\ store = << >>
    /\ rng = 0
    /\ served = 0
    /\ last = Idle
    /\ tasks = << >>

\* POST /integrations/<integration>/authorize
AuthorizeWith(integration, users, orgs) ==
    /\ last = Idle
    /\ served < MaxAuthorize
    /\ \E user_id \in users, org_id \in orgs :
        /\ LET a == Authorize(store, rng, integration, user_id, org_id) IN
            /\ store' = a.store
            /\ rng' = rng + Draws(integration)
            /\ served' = served + 1
            /\ last' = Last("authorize", integration, user_id, org_id,
                            [NoRequest EXCEPT !.state = a.encoded_state],
                            0, a.outcome, FALSE, PyNone,
                            GetValue(store, RedisKey(integration, "state",
                                                     org_id, user_id)), {},
                            a.auth_url)
    /\ UNCHANGED tasks

AuthorizeFor(integration, users) == AuthorizeWith(integration, users, Orgs)

AuthorizeStep(integration) == AuthorizeFor(integration, Users)

\* GET /integrations/<integration>/oauth2callback; the token endpoint answers
\* only a callback that reaches the POST
Serve(integration, requests, responses) ==
    /\ last = Idle
    /\ \E req \in requests :
        \E resp \in IF Callback(store, integration, req, NoResponse).validated
                     THEN responses ELSE {NoResponse} :
          LET a == Callback(store, integration, req, resp) IN
            /\ store' = a.store
            /\ last' = Last("callback", integration, a.user_id, a.org_id, req,
                            IF a.validated THEN resp.status ELSE 0,
                            a.outcome, a.validated, a.payload,
                            GetValue(store, RedisKey(integration, "credentials",
                                                     a.org_id, a.user_id)), {},
                            a.sent)
    /\ UNCHANGED <<rng, served, tasks>>

CallbackStep(integration) ==
    Serve(integration, Requests(integration, rng), TokenResponses)

MalformedCallbackStep(integration) ==
    Serve(integration, MalformedRequests(integration, rng), TokenResponses)

\* a callback with an issued state that the token endpoint answers with 200
\* and an empty object
EmptyAnswerCallbackStep(integration) ==
    /\ \E req \in Requests(integration, rng) :
          Callback(store, integration, req, NoResponse).validated
    /\ Serve(integration, Requests(integration, rng), EmptyResponses)

\* the integration names exchange_code_for_token is called with
ExchangeNames == TokenUrlTable \cup {"unknown-provider"}
\* the additional_params it is called with
AdditionalParams == {PyNone, PyDict([code_verifier |-> "verifier1"])}

\* await exchange_code_for_token(integration, code, additional_params)
ExchangeStep ==
    /\ last = Idle
    /\ \E integration \in ExchangeNames, additional_params \in AdditionalParams,
          resp \in TokenResponses :
        LET x == ExchangeCodeForToken(integration, "c1", additional_params, resp)
        IN  last' = [Last("exchange", integration, None, None,
                          [NoRequest EXCEPT !.code = "c1"],
                          IF x.sent = NoMessage THEN 0 ELSE resp.status,
                          x.outcome, FALSE, x.token_response, NoneText, {},
                          x.sent)
                        EXCEPT !.additional_params = additional_params]
    /\ UNCHANGED <<store, rng, served, tasks>>

\* POST /integrations/<integration>/credentials
CredentialsWith(integration, users, orgs) ==
    /\ last = Idle
    /\ \E user_id \in users, org_id \in orgs :
        /\ LET a == Credentials(store, integration, user_id, org_id) IN
            /\ store' = a.store
            /\ last' = Last("credentials", integration, user_id, org_id, NoRequest,
                            0, a.outcome, FALSE, a.payload,
                            GetValue(store, RedisKey(integration, "credentials",
                                                     org_id, user_id)), {},
                            NoMessage)
    /\ UNCHANGED <<rng, served, tasks>>

CredentialsStep(integration) == CredentialsWith(integration, Users, Orgs)

\* the store after d seconds: a key whose TTL has run out is gone
Expire(st, d) ==
    LET live == {k \in DOMAIN st : st[k].ttl = NoExpiry \/ st[k].ttl > d}
    IN  [k \in live |-> IF st[k].ttl = NoExpiry THEN st[k]
                        ELSE [st[k] EXCEPT !.ttl = @ - d]]

\* TimeStep seconds pass while no request is served
Tick ==
    /\ last = Idle
    /\ store # << >>
    /\ store' = Expire(store, TimeStep)
    /\ last' = Last("tick", None, None, None, NoRequest, 0, "ok", FALSE, PyNone,
                    NoneText, DOMAIN store \ DOMAIN Expire(store, TimeStep),
                    NoMessage)
    /\ UNCHANGED <<rng, served, tasks>>

\* the answer goes back to the caller; the next request can be served
Respond ==
    /\ last # Idle
    /\ last' = Idle
    /\ UNCHANGED <<store, rng, served, tasks>>

Next ==
    \/ \E integration \in Integrations : AuthorizeStep(integration)
    \/ \E integration \in Integrations : CallbackStep(integration)
    \/ \E integration \in Integrations : CredentialsStep(integration)
    \/ Tick
    \/ Respond

Spec == Init /\ [][Next]_vars

\* the same machine, callbacks with a malformed state parameter included
NextAll ==
    \/ Next
    \/ \E integration \in Integrations : MalformedCallbackStep(integration)

SpecAll == Init /\ [][NextAll]_vars

\* the same machine again, with the token endpoint's empty answer and the
\* token-exchange helper called on its own
NextAny ==
    \/ NextAll
    \/ \E integration \in Integrations : EmptyAnswerCallbackStep(integration)
    \/ ExchangeStep

SpecAny == Init /\ [][NextAny]_vars

\* user and organisation ids are form fields and query parameters of the
\* caller's choosing: among them ids that contain the separator of the keys
SeparatorUsers == {"u1", "x:u1"}
SeparatorOrgs == {"o1", "o1:x"}

\* the callbacks whose state names such ids and carries a token drawn so far
SeparatorRequests(integration, n) ==
    [error : {None}, code : {"c1"},
     state : {Encode(integration,
                     PyDict([state |-> TokenUrlsafe(k), user_id |-> u, org_id |-> o])) :
                 k \in 1..n, u \in SeparatorUsers, o \in SeparatorOrgs}]

SeparatorAuthorizeStep(integration) ==
    AuthorizeWith(integration, SeparatorUsers, SeparatorOrgs)

SeparatorCallbackStep(integration) ==
    Serve(integration, SeparatorRequests(integration, rng), TokenResponses)

SeparatorCredentialsStep(integration) ==
    CredentialsWith(integration, SeparatorUsers, SeparatorOrgs)

\* the machine of Spec, served with such ids
NextSeparator ==
    \/ \E integration \in Integrations : SeparatorAuthorizeStep(integration)
    \/ \E integration \in Integrations : SeparatorCallbackStep(integration)
    \/ \E integration \in Integrations : SeparatorCredentialsStep(integration)
    \/ Respond

SpecSeparator == Init /\ [][NextSeparator]_vars

\* await BaseIntegration(integration).authorize(user_id, org_id), for each of
\* the integrations the constructor accepts
BaseAuthorizeStep(integration) ==
    /\ last = Idle
    /\ served < MaxAuthorize
    /\ \E user_id \in Users, org_id \in Orgs :
        /\ LET a == BaseAuthorize(store, rng, integration, user_id, org_id) IN
            /\ store' = a.store
            /\ rng' = rng + 1
            /\ served' = served + 1
            /\ last' = Last("authorize", integration, user_id, org_id,
                            [NoRequest EXCEPT !.state = a.encoded_state],
                            0, a.outcome, FALSE, PyNone,
                            GetValue(store, RedisKey(integration, "state",
                                                     org_id, user_id)), {},
                            a.auth_url)
    /\ UNCHANGED tasks

\* the machine of Spec with the base class's authorize called for every
\* integration
NextBase ==
    \/ \E integration \in Integrations : BaseAuthorizeStep(integration)
    \/ \E integration \in Integrations : CallbackStep(integration)
    \/ \E integration \in Integrations : CredentialsStep(integration)
    \/ Respond

SpecBase == Init /\ [][NextBase]_vars

(***************************************************************************)
(* Item listing: hubspot.py get_items, notion.py get_items_notion,         *)
(* airtable.py get_items_airtable.                                         *)
(***************************************************************************)
\* the records of a provider's listing, in the fields on which the
\* normalization of a record depends: the id (airtable), the parent (notion)
\* and the creation date (hubspot)
RawRecords ==
    [id : {"r1", None}, parent : {"workspace", "null"},
     createdate : {"2024-01-01T00:00:00Z", "yesterday"}]

\* the listings of at most n records
Batches(n) == UNION {[1..k -> RawRecords] : k \in 0..n}

\* what the normalization of one record raises: datetime.fromisoformat on a
\* date that is not ISO (hubspot), .get on a parent that is null (notion),
\* None + '_' + item_type (airtable)
NormalizeError(integration, record) ==
    IF integration = "hubspot" /\ record.createdate = "yesterday" THEN "ValueError"
    ELSE IF integration = "notion" /\ record.parent = "null" THEN "AttributeError"
    ELSE IF integration = "airtable" /\ record.id = None THEN "TypeError"
    ELSE "ok"

\* the IntegrationItem of a record whose normalization returns
CreateItem(integration, type, record) ==
    [id |-> IF integration = "airtable" THEN record.id \o "_" \o type
            ELSE record.id,
     type |-> type,
     parent_id |-> IF integration = "notion" /\ record.parent # "workspace"
                   THEN record.parent ELSE None,
     creation_time |-> IF integration = "airtable" THEN None
                       ELSE record.createdate]

\* the items of the records of a listing that normalize, in order
ItemsOf(integration, type, batch) ==
    LET good == SelectSeq(batch, LAMBDA r : NormalizeError(integration, r) = "ok")
    IN  [i \in 1..Len(good) |-> CreateItem(integration, type, good[i])]

\* the records of a listing whose normalization raises
ErrorsOf(integration, batch) ==
    Len(batch) - Len(SelectSeq(batch, LAMBDA r : NormalizeError(integration, r) = "ok"))

\* what the first record that raises, raises
FirstError(integration, batch) ==
    LET bad == SelectSeq(batch, LAMBDA r : NormalizeError(integration, r) # "ok")
    IN  IF bad = << >> THEN "ok" ELSE NormalizeError(integration, bad[1])

\* HubSpotIntegration.get_items: each record is normalized inside its own
\* try, a record that raises is counted and left out
GetItemsHubspot(contacts, companies, deals) ==
    [outcome |-> "ok",
     items |-> ItemsOf("hubspot", "contact", contacts)
                 \o ItemsOf("hubspot", "company", companies)
                 \o ItemsOf("hubspot", "deal", deals),
     errors |-> ErrorsOf("hubspot", contacts) + ErrorsOf("hubspot", companies)
                  + ErrorsOf("hubspot", deals)]

\* get_items_notion: the loop has no try, the first record that raises ends
\* the call
GetItemsNotion(results) ==
    IF FirstError("notion", results) # "ok"
    THEN [outcome |-> FirstError("notion", results), items |-> << >>, errors |-> 0]
    ELSE [outcome |-> "ok", items |-> ItemsOf("notion", "page", results),
          errors |-> 0]

\* get_items_airtable: the loop over the bases has no try
GetItemsAirtable(bases) ==
    IF FirstError("airtable", bases) # "ok"
    THEN [outcome |-> FirstError("airtable", bases), items |-> << >>, errors |-> 0]
    ELSE [outcome |-> "ok", items |-> ItemsOf("airtable", "Base", bases),
          errors |-> 0]

\* POST /integrations/<integration>/load: the provider answers the listing
\* calls with 200 and these records
GetItemsStep(integration) ==
    /\ last = Idle
    /\ \E batch \in Batches(MaxBatch), companies \in Batches(1), deals \in Batches(1) :
        /\ integration # "hubspot" => companies = << >> /\ deals = << >>
        /\ LET a == IF integration = "hubspot"
                    THEN GetItemsHubspot(batch, companies, deals)
                    ELSE IF integration = "notion" THEN GetItemsNotion(batch)
                    ELSE GetItemsAirtable(batch)
           IN  last' = Last("get_items", integration, None, None, NoRequest, 200,
                            a.outcome, FALSE, PyNone, NoneText, {}, NoMessage)
                         @@ [batch |-> batch \o companies \o deals,
                             items |-> a.items, errors |-> a.errors]
    /\ UNCHANGED <<store, rng, served, tasks>>

NextItems ==
    \/ \E integration \in Integrations : GetItemsStep(integration)
    \/ Respond

SpecItems == Init /\ [][NextItems]_vars

(***************************************************************************)
(* airtable.py fetch_bases_async: the pages of the listing of bases.       *)
(***************************************************************************)
\* the answers of GET /v0/meta/bases: a status, the page's bases and the
\* offset of the next page (None or '' when there is none)
BasePages ==
    [status : {200, 500},
     bases : UNION {[1..k -> {"b1", "b2"}] : k \in 0..2},
     offset : {None, "", "next"}]

\* a page whose bases replace what was fetched before
Replace(aggregated_response, results) == results

\* aggregated_response.extend(results)
Extend(aggregated_response, results) == aggregated_response \o results

\* get_items_airtable calls fetch_bases_async with an empty list and no offset
StartFetchBases ==
    /\ last = Idle
    /\ tasks = << >>
    /\ tasks' = <<[op |-> "fetch_bases", pc |-> "get", offset |-> None,
                   aggregated_response |-> << >>, fetched |-> << >>,
                   outcome |-> "running"]>>
    /\ UNCHANGED <<store, rng, served, last>>

\* one call of fetch_bases_async: the GET with the offset it was given, and
\* what it does with the answer; fetched keeps the pages as they came
FetchPage(t) ==
    /\ last = Idle
    /\ t \in DOMAIN tasks
    /\ tasks[t].op = "fetch_bases"
    /\ tasks[t].pc = "get"
    /\ \E page \in BasePages :
        /\ Len(tasks[t].fetched) + 1 >= MaxPages => Falsy(page.offset)
        /\ tasks' = [tasks EXCEPT ![t] =
              IF page.status # 200
              THEN [@ EXCEPT !.pc = "done", !.outcome = "Exception",
                             !.fetched = Append(@, page)]
              ELSE IF ~Falsy(page.offset)
              THEN [@ EXCEPT !.aggregated_response = Extend(@, page.bases),
                             !.offset = page.offset,
                             !.fetched = Append(@, page)]
              ELSE [@ EXCEPT !.aggregated_response = Extend(@, page.bases),
                             !.pc = "done", !.outcome = "ok",
                             !.fetched = Append(@, page)]]
    /\ UNCHANGED <<store, rng, served, last>>

NextBases ==
    \/ StartFetchBases
    \/ FetchPage(1)

SpecBases == Init /\ [][NextBases]_vars

(***************************************************************************)
(* Properties.                                                             *)
(***************************************************************************)
\* the callback request a provider redirect with this state parameter makes
Req(text) == [error |-> None, code |-> "c1", state |-> text]

\* the request that last records, made once more
LastReq == [error |-> last.error, code |-> last.code, state |-> last.state]

StateKeyOf(integration, user_id, org_id) ==
    RedisKey(integration, "state", org_id, user_id)
VerifierKeyOf(integration, user_id, org_id) ==
    RedisKey(integration, "verifier", org_id, user_id)
CredentialsKeyOf(integration, user_id, org_id) ==
    RedisKey(integration, "credentials", org_id, user_id)

StateDict(token, user_id, org_id) ==
    PyDict([state |-> token, user_id |-> user_id, org_id |-> org_id])

(***************************************************************************)
(* Concurrent requests.  A handler runs from one await to the next; each   *)
(* cache command and each POST is one step, and the calls a handler issues *)
(* together with asyncio.gather complete in any order.                     *)
(***************************************************************************)
\* what a handler knows of a key: the store as the value it read shows it
View(key, text) ==
    IF NoValue(text) THEN << >> ELSE key :> [val |-> text, ttl |-> NoExpiry]

\* the dictionary a callback decodes from its state parameter
DecodeState(integration, encoded_state) ==
    IF integration = "airtable" THEN JsonLoads(B64Decode(encoded_state))
    ELSE JsonLoads(encoded_state)

\* a callback that issued the deletion of the state record with its reads
ReadsAndDeletesOf(integration) ==
    IF integration = "airtable" THEN {"get_state", "get_verifier", "del_state"}
    ELSE {"get_state", "del_state"}

\* the cache reads a callback issues before it compares the tokens
ReadsOf(integration) ==
    IF integration = "airtable" THEN {"get_state", "get_verifier"}
    ELSE {"get_state"}

\* the calls a callback issues once the tokens matched
ExchangeCallsOf(integration) ==
    IF integration = "hubspot" THEN {"post"}
    ELSE IF integration = "notion" THEN {"post", "del_state"}
    ELSE {"post", "del_state", "del_verifier"}

\* the calls a callback hands to asyncio.gather once the tokens matched
GatheredCalls == {"post", "del_state", "del_verifier"}

\* the key a cache call of a callback names
KeyOfCall(task, call) ==
    RedisKey(task.integration,
             IF call \in {"get_state", "del_state"} THEN "state" ELSE "verifier",
             task.org_id, task.user_id)

\* the token endpoint's answers to the POST of task t: each exchange that
\* succeeds yields an access token of its own
TaskResponses(t) ==
    { [status |-> 200, body |-> PyDict([access_token |-> "token" \o ToString(t)])],
      [status |-> 400, body |-> PyDict([error |-> "invalid_grant"])] }

\* a request that has been accepted and has made no call yet
NewTask(op, integration, user_id, org_id, req) ==
    [op |-> op, integration |-> integration, user_id |-> user_id,
     org_id |-> org_id, state |-> req.state, code |-> req.code,
     pc |-> "calls", todo |-> {}, saved_state |-> NoneText,
     code_verifier |-> NoneText, credentials |-> NoneText,
     validated |-> FALSE, resp |-> NoResponse, sent |-> NoMessage,
     outcome |-> "running", payload |-> PyNone]

\* the handler has returned or raised: its local variables are gone
Returned(task, outcome) ==
    [task EXCEPT !.pc = "done", !.todo = {}, !.outcome = outcome,
                 !.saved_state = NoneText, !.code_verifier = NoneText,
                 !.credentials = NoneText, !.resp = NoResponse]

\* a handler that sends the POST again when the token endpoint refused it
FailedRetry(task, outcome) ==
    IF outcome = "TokenExchangeFailed" THEN [task EXCEPT !.todo = {"post"}]
    ELSE Returned(task, outcome)

\* the handler raises: nothing is caught and tried again
Failed(task, outcome) == Returned(task, outcome)

\* the comparison of the tokens, made on what the handler has read
Validate(task) ==
    LET key == RedisKey(task.integration, "state", task.org_id, task.user_id)
        view == View(key, task.saved_state)
        matches ==
            IF task.integration = "hubspot"
            THEN ValidateState(view, "hubspot", task.state).outcome = "ok"
            ELSE StateMatches(view, key,
                              DictGet(DecodeState(task.integration, task.state),
                                      "state"))
    IN  IF matches
        THEN [task EXCEPT !.validated = TRUE,
                          !.todo = ExchangeCallsOf(task.integration)]
        ELSE Failed(task, "StateMismatch")

\* a callback that stored the answer as soon as the POST returned
JoinedAfterPost(task) ==
    IF task.pc = "calls" /\ "post" \notin task.todo /\ task.sent.kind = "post"
    THEN [task EXCEPT !.pc = "store"]
    ELSE task

\* the calls issued together are through: the credentials are stored next
Joined(task) ==
    IF task.pc = "calls" /\ task.todo = {} THEN [task EXCEPT !.pc = "store"]
    ELSE task

TaskIds == 1..MaxTasks

\* the state parameters of the callbacks served concurrently
ConcurrentStates(integration) ==
    {x \in IssuedLooking(integration, rng) :
        DictGet(DecodeState(integration, x), "user_id") \in ConcurrentUsers}

\* the requests served concurrently in one behaviour go to one integration
\* (requests to different integrations share no key)
Accepts(integration) ==
    /\ Len(tasks) < MaxTasks
    /\ \A t \in DOMAIN tasks : tasks[t].integration = integration

\* a cache read of a callback has returned: when it was the last of the reads
\* issued together, the tokens are compared
AfterGet(task, call, value) ==
    LET read == IF call = "get_state"
                THEN [task EXCEPT !.saved_state = value, !.todo = @ \ {call}]
                ELSE [task EXCEPT !.code_verifier = value, !.todo = @ \ {call}]
    IN  IF read.todo = {} THEN Validate(read) ELSE read

\* GET /integrations/<integration>/oauth2callback is accepted; the handler
\* runs up to its cache reads, of which the store answers one
StartCallback(integration) ==
    /\ last = Idle
    /\ Accepts(integration)
    /\ Cardinality({t \in DOMAIN tasks : tasks[t].op = "callback"}) < MaxCallbackTasks
    /\ \E state \in ConcurrentStates(integration), call \in ReadsOf(integration) :
        LET d == DecodeState(integration, state)
            task == [NewTask("callback", integration, DictGet(d, "user_id"),
                             DictGet(d, "org_id"), Req(state))
                        EXCEPT !.todo = ReadsOf(integration)]
        IN  tasks' = Append(tasks,
                            AfterGet(task, call,
                                     GetValue(store, KeyOfCall(task, call))))
    /\ UNCHANGED <<store, rng, served, last>>

\* get_value_redis of a callback
CacheGet(t, call) ==
    /\ last = Idle
    /\ t \in DOMAIN tasks
    /\ tasks[t].op = "callback"
    /\ call \in tasks[t].todo
    /\ tasks' = [tasks EXCEPT ![t] =
                    AfterGet(@, call, GetValue(store, KeyOfCall(tasks[t], call)))]
    /\ UNCHANGED <<store, rng, served, last>>

\* client.post to the token endpoint, and its answer
PostStep(t) ==
    /\ last = Idle
    /\ t \in DOMAIN tasks
    /\ "post" \in tasks[t].todo
    /\ \E resp \in TaskResponses(t) :
        LET task == tasks[t]
            x == ExchangeCodeForToken(task.integration, task.code,
                                      GetAdditionalTokenParams, resp)
            sent == IF task.integration = "hubspot" THEN x.sent
                    ELSE IF task.integration = "notion"
                    THEN NotionTokenRequest(task.code)
                    ELSE AirtableTokenRequest(task.code, task.code_verifier)
            posted == [task EXCEPT !.resp = resp, !.sent = sent,
                                   !.todo = @ \ {"post"}]
        IN  tasks' = [tasks EXCEPT ![t] =
                        IF task.integration = "hubspot" /\ x.outcome # "ok"
                        THEN Failed(posted, x.outcome)
                        ELSE Joined(posted)]
    /\ UNCHANGED <<store, rng, served, last>>

\* delete_key_redis of a callback
CacheDelete(t, call) ==
    /\ last = Idle
    /\ t \in DOMAIN tasks
    /\ call \in tasks[t].todo
    /\ store' = DeleteKey(store, KeyOfCall(tasks[t], call))
    /\ tasks' = [tasks EXCEPT ![t] = Joined([@ EXCEPT !.todo = @ \ {call}])]
    /\ UNCHANGED <<rng, served, last>>

\* one of the calls issued together raises (the cache or the token endpoint
\* is unreachable): gather raises in the handler, which fails; the calls
\* issued with it are not cancelled and may still complete
CallFails(t, call) ==
    /\ last = Idle
    /\ t \in DOMAIN tasks
    /\ tasks[t].op = "callback"
    /\ tasks[t].pc = "calls"
    /\ tasks[t].validated
    /\ call \in tasks[t].todo
    /\ tasks' = [tasks EXCEPT ![t] =
                    [@ EXCEPT !.pc = "done", !.outcome = "CallFailed",
                              !.todo = @ \ {call}]]
    /\ UNCHANGED <<store, rng, served, last>>

\* the expire argument of the add_key_value_redis call that stores the payload
CredentialsExpire(integration) ==
    IF integration = "hubspot" THEN STATE_TOKEN_EXPIRATION
    ELSE IF integration = "notion" THEN NOTION_EXPIRE
    ELSE AIRTABLE_EXPIRE

\* the callback stores what the token endpoint answered: the SET of
\* add_key_value
StoreStep(t) ==
    /\ last = Idle
    /\ t \in DOMAIN tasks
    /\ tasks[t].op = "callback"
    /\ tasks[t].pc = "store"
    /\ LET task == tasks[t]
           key == RedisKey(task.integration, "credentials", task.org_id, task.user_id)
       IN  /\ store' = SetKey(store, key, JsonDumps(task.resp.body))
           /\ tasks' = [tasks EXCEPT ![t] =
                            [task EXCEPT !.pc = "expire",
                                         !.payload = task.resp.body]]
    /\ UNCHANGED <<rng, served, last>>

\* the EXPIRE of add_key_value, after which the callback returns
ExpireStep(t) ==
    /\ last = Idle
    /\ t \in DOMAIN tasks
    /\ tasks[t].pc = "expire"
    /\ LET task == tasks[t]
           key == RedisKey(task.integration, "credentials", task.org_id, task.user_id)
       IN  /\ store' = ExpireKey(store, key, CredentialsExpire(task.integration))
           /\ tasks' = [tasks EXCEPT ![t] = Returned(task, "ok")]
    /\ UNCHANGED <<rng, served, last>>

\* the EXPIRE raises, or the handler is cancelled while it awaits the SET's
\* answer: the callback ends between the two commands
ExpireFails(t) ==
    /\ last = Idle
    /\ t \in DOMAIN tasks
    /\ tasks[t].pc = "expire"
    /\ tasks' = [tasks EXCEPT ![t] = Failed(@, "ExpireFailed")]
    /\ UNCHANGED <<store, rng, served, last>>

\* POST /integrations/<integration>/credentials is accepted and reads the key;
\* what it read decides whether the delete follows
StartCredentials(integration) ==
    /\ last = Idle
    /\ Accepts(integration)
    /\ \E user_id \in ConcurrentUsers, org_id \in Orgs :
        LET key == RedisKey(integration, "credentials", org_id, user_id)
            credentials == GetValue(store, key)
            task == [NewTask("credentials", integration, user_id, org_id, NoRequest)
                        EXCEPT !.credentials = credentials]
            a == Credentials(View(key, credentials), integration, user_id, org_id)
        IN  tasks' = Append(tasks,
                            IF a.outcome # "ok" THEN Failed(task, a.outcome)
                            ELSE [task EXCEPT !.pc = "delete", !.payload = a.payload])
    /\ UNCHANGED <<store, rng, served, last>>

\* delete_key_redis of a retrieval, and its return
FinishCredentials(t) ==
    /\ last = Idle
    /\ t \in DOMAIN tasks
    /\ tasks[t].op = "credentials"
    /\ tasks[t].pc = "delete"
    /\ store' = DeleteKey(store, RedisKey(tasks[t].integration, "credentials",
                                          tasks[t].org_id, tasks[t].user_id))
    /\ tasks' = [tasks EXCEPT ![t] = Returned(@, "ok")]
    /\ UNCHANGED <<rng, served, last>>

\* authorize calls, served one at a time
ConcurrentAuthorizeStep(integration) == AuthorizeFor(integration, ConcurrentUsers)

\* authorize calls, and callbacks and retrievals whose calls interleave
NextConcurrent ==
    \/ \E integration \in Integrations : ConcurrentAuthorizeStep(integration)
    \/ Respond
    \/ \E integration \in Integrations : StartCallback(integration)
    \/ \E t \in TaskIds, call \in {"get_state", "get_verifier"} : CacheGet(t, call)
    \/ \E t \in TaskIds : PostStep(t)
    \/ \E t \in TaskIds, call \in {"del_state", "del_verifier"} : CacheDelete(t, call)
    \/ \E t \in TaskIds, call \in GatheredCalls : CallFails(t, call)
    \/ \E t \in TaskIds : StoreStep(t)
    \/ \E t \in TaskIds : ExpireStep(t)
    \/ \E t \in TaskIds : ExpireFails(t)
    \/ \E integration \in Integrations : StartCredentials(integration)
    \/ \E t \in TaskIds : FinishCredentials(t)

SpecConcurrent == Init /\ [][NextConcurrent]_vars

\* C1: State round-trip.  The state an authorize call returns, presented
\* unchanged to the same integration's callback, passes validation and yields
\* the user_id and org_id of the authorize call; the same holds of
\* validate_state applied to what generate_and_store_state returns, for every
\* integration name and every (user_id, org_id).
C1_StateRoundTrip ==
    /\ (last.op = "authorize" /\ last.outcome = "ok") =>
          \A resp \in TokenResponses :
              LET a == Callback(store, last.integration, Req(last.state), resp)
              IN  /\ a.validated
                  /\ a.user_id = last.user_id
                  /\ a.org_id = last.org_id
    /\ \A integration \in Integrations, user_id \in Users, org_id \in Orgs :
          LET g == GenerateAndStoreState(store, rng, integration, user_id, org_id)
              v == ValidateState(g.store, integration, g.encoded_state)
          IN  /\ v.outcome = "ok"
              /\ v.user_id = user_id
              /\ v.org_id = org_id

\* a callback has passed validation with a state that an authorize call issued
C1_Witness ==
    /\ last.op = "callback"
    /\ last.validated
    /\ last.user_id \in Users
    /\ last.org_id \in Orgs
    /\ last.state \in IssuedLooking(last.integration, rng)

\* C2: Single use.  After a callback's state validation has succeeded for an
\* encoded state, the same request made again fails with StateMismatch.
C2_SingleUse ==
    (last.op = "callback" /\ last.validated) =>
        \A resp \in TokenResponses :
            Callback(store, last.integration, LastReq, resp).outcome = "StateMismatch"

\* C3: Tamper rejection.  While a state record is live, a callback whose state
\* carries the record's user_id and org_id and another CSRF token is rejected
\* with StateMismatch and leaves the store as it is, for each integration.
C3_TamperRejection ==
    \A integration \in Integrations, user_id \in Users, org_id \in Orgs :
        LET key == StateKeyOf(integration, user_id, org_id) IN
        key \in DOMAIN store =>
            \A token \in Tokens(rng) \ {DictGet(JsonLoads(store[key].val), "state")},
               resp \in TokenResponses :
                LET a == Callback(store, integration,
                                  Req(Encode(integration,
                                             StateDict(token, user_id, org_id))),
                                  resp)
                IN  /\ a.outcome = "StateMismatch"
                    /\ a.store = store

\* a callback with another token than the live record's has been rejected
C3_Witness ==
    /\ last.op = "callback"
    /\ last.outcome = "StateMismatch"
    /\ last.user_id \in Users
    /\ last.org_id \in Orgs
    /\ StateKeyOf(last.integration, last.user_id, last.org_id) \in DOMAIN store
    /\ last.state \in IssuedLooking(last.integration, rng)

\* the token payloads a provider answers with
TokenPayloads == {r.body : r \in {x \in TokenResponses : x.status = 200}}

\* C4: Credential single read.  store_credentials(integration, u, o, P), then
\* get_credentials(integration, u, o) returns P, and get_credentials once
\* more fails with CredentialsNotFound.
C4_CredentialSingleRead ==
    \A integration \in Integrations, user_id \in Users, org_id \in Orgs,
       P \in TokenPayloads :
        LET stored == StoreCredentials(store, integration, user_id, org_id, P)
            first == GetCredentials(stored, integration, user_id, org_id)
            second == GetCredentials(first.store, integration, user_id, org_id)
        IN  /\ first.outcome = "ok"
            /\ first.payload = P
            /\ second.outcome = "CredentialsNotFound"

\* get_credentials has returned what store_credentials stored
C4_Witness ==
    /\ last.op = "credentials"
    /\ last.integration = "hubspot"
    /\ last.outcome = "ok"
    /\ last.payload \in TokenPayloads
    /\ JsonLoads(last.before) = last.payload
    /\ CredentialsKeyOf("hubspot", last.user_id, last.org_id) \notin DOMAIN store

\* C5: End-to-end flow.  After authorize, a callback with the issued state
\* and a code that the token endpoint answers with 200 and payload P succeeds,
\* the credentials request that follows returns exactly P, and a second one
\* fails with CredentialsNotFound.
C5_EndToEnd ==
    (last.op = "authorize" /\ last.outcome = "ok") =>
        \A resp \in {r \in TokenResponses : r.status = 200} :
            LET cb == Callback(store, last.integration, Req(last.state), resp)
                first == Credentials(cb.store, last.integration,
                                     last.user_id, last.org_id)
                second == Credentials(first.store, last.integration,
                                      last.user_id, last.org_id)
            IN  /\ cb.outcome = "ok"
                /\ first.outcome = "ok"
                /\ first.payload = resp.body
                /\ second.outcome = "CredentialsNotFound"

\* the credentials request has returned the payload of a callback, which the
\* store held only through a callback with an issued state
C5_Witness ==
    /\ last.op = "credentials"
    /\ last.outcome = "ok"
    /\ last.payload \in TokenPayloads
    /\ Credentials(store, last.integration, last.user_id, last.org_id).outcome
          = "CredentialsNotFound"

\* C6: A successful callback consumes the state.  After a callback has
\* completed successfully, the store holds neither the triple's state record
\* nor its verifier, and the same request made again is rejected with
\* StateMismatch.
C6_CallbackConsumesState ==
    (last.op = "callback" /\ last.outcome = "ok") =>
        /\ StateKeyOf(last.integration, last.user_id, last.org_id) \notin DOMAIN store
        /\ VerifierKeyOf(last.integration, last.user_id, last.org_id) \notin DOMAIN store
        /\ \A resp \in TokenResponses :
              Callback(store, last.integration, LastReq, resp).outcome = "StateMismatch"

C8_OneLiveState ==
    (last.op = "authorize" /\ last.outcome = "ok" /\ ~NoValue(last.before)) =>
        \A resp \in TokenResponses :
            /\ Callback(store, last.integration,
                        Req(Encode(last.integration, JsonLoads(last.before))),
                        resp).outcome = "StateMismatch"
            /\ \A token \in Tokens(rng) :
                  LET text == Encode(last.integration,
                                     StateDict(token, last.user_id, last.org_id))
                  IN  Callback(store, last.integration, Req(text), resp).validated
                          <=> text = last.state

\* a second authorize call has replaced the live record of the first
C8_Witness ==
    /\ last.op = "authorize"
    /\ last.integration = "airtable"
    /\ ~NoValue(last.before)
    /\ Encode("airtable", JsonLoads(last.before)) # last.state

\* C9: At most one credential payload per triple.  When a callback succeeds
\* while the payload of an earlier callback is still unread, the next
\* credentials request returns the later callback's payload and the one after
\* that fails with CredentialsNotFound.
C9_OneCredentialPayload ==
    (last.op = "callback" /\ last.outcome = "ok" /\ ~NoValue(last.before)) =>
        LET first == Credentials(store, last.integration, last.user_id, last.org_id)
            second == Credentials(first.store, last.integration,
                                  last.user_id, last.org_id)
        IN  /\ first.outcome = "ok"
            /\ first.payload = last.payload
            /\ second.outcome = "CredentialsNotFound"

\* a callback has succeeded over the unread, different payload of an earlier one
C9_Witness ==
    /\ last.op = "callback"
    /\ last.outcome = "ok"
    /\ ~NoValue(last.before)
    /\ JsonLoads(last.before) # last.payload

\* the outcome the error mapping of validate_state names for a state parameter
C10_Mapping(st, integration, encoded_state) ==
    IF JsonLoadsError(encoded_state) # "ok" THEN "InvalidStateFormat"
    ELSE LET d == JsonLoads(encoded_state) IN
    IF Falsy(DictGet(d, "state")) \/ Falsy(DictGet(d, "user_id"))
           \/ Falsy(DictGet(d, "org_id"))
    THEN "MissingStateFields"
    ELSE LET key == StateKeyOf(integration, DictGet(d, "user_id"), DictGet(d, "org_id"))
         IN
    IF key \notin DOMAIN st
           \/ DictGet(JsonLoads(st[key].val), "state") # DictGet(d, "state")
    THEN "StateMismatch"
    ELSE "ok"

\* C10: validate_state error mapping, in this order: InvalidStateFormat if
\* encoded_state cannot be decoded; otherwise MissingStateFields if any of
\* token, user_id or org_id is absent; otherwise StateMismatch if no record is
\* stored under the derived key or its token differs; otherwise success.
C10_ValidateStateMapping ==
    (/\ last.op = "callback"
     /\ last.integration = "hubspot"
     /\ last.outcome \notin {"OAuthError", "MissingCodeOrState"}) =>
        (IF last.validated THEN "ok" ELSE last.outcome)
            = C10_Mapping(store, "hubspot", last.state)

\* the outcome the error mapping of credential retrieval names for what the
\* store holds under the key; an empty object counts as empty or as a payload
C11_Mapping(st, key) ==
    IF key \notin DOMAIN st THEN {"CredentialsNotFound"}
    ELSE IF JsonLoadsError(st[key].val) # "ok" THEN {"InvalidCredentialsFormat"}
    ELSE IF JsonLoads(st[key].val).type = "dict"
            /\ DOMAIN JsonLoads(st[key].val).items = {}
    THEN {"CredentialsNotFound", "ok"}
    ELSE {"ok"}

\* C11: Credential retrieval error mapping.  Retrieval fails with
\* CredentialsNotFound if the key is absent or empty, with
\* InvalidCredentialsFormat if the value is not parseable, and only on success
\* deletes the key and returns the parsed payload; for the shared helper and
\* for the notion and airtable functions.
C11_RetrievalMapping ==
    \A integration \in Integrations, user_id \in Users, org_id \in Orgs :
        LET key == CredentialsKeyOf(integration, user_id, org_id)
            a == Credentials(store, integration, user_id, org_id)
        IN  /\ a.outcome \in C11_Mapping(store, key)
            /\ IF a.outcome = "ok"
               THEN /\ a.store = DeleteKey(store, key)
                    /\ a.payload = JsonLoads(store[key].val)
               ELSE a.store = store

\* C12: Unsupported integration.  exchange_code_for_token called with an
\* integration name that is not in the token-URL table fails with
\* UnsupportedIntegration and performs no network call.
C12_UnsupportedIntegration ==
    (last.op = "exchange" /\ last.integration \notin TokenUrlTable) =>
        /\ last.outcome = "UnsupportedIntegration"
        /\ last.sent = NoMessage

\* C13: Failed token exchange.  When the token endpoint answers the callback's
\* POST with a non-2xx status, the callback fails with TokenExchangeFailed
\* carrying that status, and no credential payload is stored for the triple.
C13_FailedExchange ==
    (last.op = "callback" /\ last.validated /\ last.status # 200) =>
        /\ last.outcome = "TokenExchangeFailed"
        /\ GetValue(store, CredentialsKeyOf(last.integration, last.user_id,
                                            last.org_id)) = last.before

\* C14: State machine, failure branch.  When a triple is in STATE_PENDING and
\* a callback carrying the valid state fails in token exchange, neither a
\* state record nor a credential payload remains for the triple, and the same
\* callback made again is rejected.
C14_FailureBranch ==
    (/\ last.op = "callback"
     /\ last.validated
     /\ last.status # 200
     /\ NoValue(last.before)) =>
        /\ StateKeyOf(last.integration, last.user_id, last.org_id) \notin DOMAIN store
        /\ CredentialsKeyOf(last.integration, last.user_id, last.org_id)
              \notin DOMAIN store
        /\ \A resp \in TokenResponses :
              ~Callback(store, last.integration, LastReq, resp).validated

\* the triple has neither a state record nor a credential payload in st
NoState(st, integration, user_id, org_id) ==
    /\ StateKeyOf(integration, user_id, org_id) \notin DOMAIN st
    /\ CredentialsKeyOf(integration, user_id, org_id) \notin DOMAIN st

\* every callback request, whatever its state parameter
AnyRequests(integration) ==
    Requests(integration, rng) \cup MalformedRequests(integration, rng)

\* in NO_STATE no callback succeeds or validates for the triple and no
\* credentials request succeeds, and the triple stays in NO_STATE (looked at
\* between requests: Respond leaves store and rng as they are, so every store
\* that is reached is reached with last = Idle)
C15_IdleNow ==
    \A integration \in Integrations, user_id \in Users, org_id \in Orgs :
        (last = Idle /\ NoState(store, integration, user_id, org_id)) =>
            /\ \A req \in AnyRequests(integration),
                  resp \in TokenResponses \cup {NoResponse} :
                  LET a == Callback(store, integration, req, resp)
                  IN  /\ (a.validated \/ a.outcome = "ok") =>
                             <<a.user_id, a.org_id>> # <<user_id, org_id>>
                      /\ NoState(a.store, integration, user_id, org_id)
            /\ LET c == Credentials(store, integration, user_id, org_id)
               IN  /\ c.outcome # "ok"
                   /\ c.store = store

\* a step that takes a triple out of NO_STATE is an authorize call for it
C15_OnlyAuthorizeLeaves ==
    \A integration \in Integrations, user_id \in Users, org_id \in Orgs :
        (/\ NoState(store, integration, user_id, org_id)
         /\ ~NoState(store', integration, user_id, org_id)) =>
            /\ last'.op = "authorize"
            /\ last'.integration = integration
            /\ last'.user_id = user_id
            /\ last'.org_id = org_id

\* C15: NO_STATE is idle.  For a triple with no state record and no credential
\* payload, every callback (with any state value) and every credentials
\* request fails and leaves the triple without state record and without
\* credentials; only an authorize call moves the triple out of NO_STATE.
C15_NoStateIdle == []C15_IdleNow /\ [][C15_OnlyAuthorizeLeaves]_vars

\* a callback naming a triple in NO_STATE, with a token that was issued to
\* another triple, has been rejected, and the triple is still in NO_STATE
C15_Witness ==
    /\ last.op = "callback"
    /\ last.outcome = "StateMismatch"
    /\ last.user_id \in Users
    /\ last.org_id \in Orgs
    /\ last.state \in IssuedLooking(last.integration, rng)
    /\ NoState(store, last.integration, last.user_id, last.org_id)

\* base64url without padding of a digest
Base64UrlNoPad(digest) == [b64 |-> digest, padding |-> ""]

\* the string a stored text holds
StrOf(t) == t.val.items[1]

\* C18: PKCE determinism.  For every airtable authorize call, the
\* code_challenge placed in the authorization URL equals base64url without
\* padding of the SHA-256 digest of the code_verifier that the same call
\* stores under the airtable_verifier key.
C18_PkceDeterminism ==
    (last.op = "authorize" /\ last.integration = "airtable") =>
        LET key == VerifierKeyOf("airtable", last.user_id, last.org_id)
        IN  /\ key \in DOMAIN store
            /\ store[key].val.fmt = "raw"
            /\ last.sent.kind = "url"
            /\ last.sent.items.code_challenge
                  = Base64UrlNoPad(Sha256(StrOf(store[key].val)))

\* an airtable authorize call has stored a verifier and returned its URL
C18_Witness ==
    /\ last.op = "authorize"
    /\ last.integration = "airtable"
    /\ last.sent.kind = "url"
    /\ VerifierKeyOf("airtable", last.user_id, last.org_id) \in DOMAIN store

\* the verifiers drawn so far, as the store holds them
Verifiers == { RawText(TokenUrlsafe(k)) : k \in 1..rng }

\* C19: The PKCE verifier is never transmitted before the token-exchange
\* step.  The authorization URL carries only the code_challenge, and the only
\* outgoing message that contains a code_verifier is the token-exchange POST
\* of a callback that passed state validation.
C19_VerifierNotSentEarly ==
    /\ last.op = "authorize" =>
          /\ last.sent.kind \in {"url", "none"}
          /\ "code_verifier" \notin DOMAIN last.sent.items
          /\ "code_challenge" \in DOMAIN last.sent.items =>
                last.sent.items.code_challenge \notin Verifiers
    /\ "code_verifier" \in DOMAIN last.sent.items =>
          /\ last.op = "callback"
          /\ last.validated
          /\ last.sent.kind = "post"

\* a validated airtable callback has sent the stored verifier to the token
\* endpoint
C19_Witness ==
    /\ last.op = "callback"
    /\ last.integration = "airtable"
    /\ last.validated
    /\ last.sent.kind = "post"
    /\ last.sent.items.code_verifier \in Verifiers

\* C20: Whenever a PKCE verifier (or other additional token parameter) was
\* generated or supplied for a flow, the token-exchange request carries it:
\* exchange(integration, code, verifier) sends the given verifier in the body
\* together with grant_type=authorization_code, the callback's code and the
\* integration's registered redirect URI.
C20_ExchangeCarriesVerifier ==
    /\ (last.op \in {"exchange", "callback"} /\ last.sent.kind = "post") =>
          /\ last.sent.items.grant_type = "authorization_code"
          /\ last.sent.items.code = last.code
          /\ last.sent.items.redirect_uri = RedirectUri(last.integration)
          /\ \A f \in DOMAIN last.additional_params.items :
                /\ f \in DOMAIN last.sent.items
                /\ last.sent.items[f] = last.additional_params.items[f]
    /\ (last.op = "callback" /\ last.integration = "airtable" /\ last.validated) =>
          /\ last.sent.kind = "post"
          /\ "code_verifier" \in DOMAIN last.sent.items
          /\ last.sent.items.code_verifier \in Verifiers

\* C16: At-most-one retrieval under concurrency.  For one stored credential
\* payload, among the credentials requests for that triple whose cache
\* operations interleave, at most one returns the payload.
C16_AtMostOneRetrieval ==
    \A t1 \in DOMAIN tasks, t2 \in DOMAIN tasks :
        (/\ t1 # t2
         /\ tasks[t1].op = "credentials"
         /\ tasks[t2].op = "credentials"
         /\ tasks[t1].outcome = "ok"
         /\ tasks[t2].outcome = "ok"
         /\ tasks[t1].integration = tasks[t2].integration
         /\ tasks[t1].user_id = tasks[t2].user_id
         /\ tasks[t1].org_id = tasks[t2].org_id
         /\ "access_token" \in DOMAIN tasks[t1].payload.items)
            => tasks[t1].payload # tasks[t2].payload

\* C17: State used at most once under concurrency.  For one state record
\* created by one authorize call, among the callback requests carrying that
\* state whose cache and network operations interleave, at most one passes
\* validation and issues a token-exchange request.
C17_StateUsedOnce ==
    \A t1 \in DOMAIN tasks, t2 \in DOMAIN tasks :
        (/\ t1 # t2
         /\ tasks[t1].op = "callback"
         /\ tasks[t2].op = "callback"
         /\ tasks[t1].integration = tasks[t2].integration
         /\ tasks[t1].state = tasks[t2].state
         /\ tasks[t1].validated
         /\ tasks[t1].sent.kind = "post")
            => ~(tasks[t2].validated /\ tasks[t2].sent.kind = "post")

\* a callback that has not passed the comparison has sent nothing
C21_NothingSentEarly ==
    \A t \in DOMAIN tasks :
        (tasks[t].op = "callback" /\ ~tasks[t].validated) =>
            tasks[t].sent = NoMessage

\* a step of a callback that has not passed the comparison changes no key
C21_NothingDeletedEarly ==
    /\ \A t \in DOMAIN tasks :
          (/\ tasks[t].op = "callback"
           /\ tasks'[t] # tasks[t]
           /\ ~tasks[t].validated) => store' = store
    /\ Len(tasks') > Len(tasks) => store' = store

\* C21: Validation precedes consumption.  Within one callback the POST to
\* the token endpoint and the deletion of the state record (and of the
\* verifier) happen only after the comparison of the state has succeeded; a
\* callback whose comparison fails issues no token-exchange request and
\* deletes nothing.
C21_ValidationPrecedesConsumption ==
    []C21_NothingSentEarly /\ [][C21_NothingDeletedEarly]_vars

\* one callback was rejected having sent nothing, another passed the
\* comparison, posted and deleted its state record
C21_Witness ==
    \E t1 \in DOMAIN tasks, t2 \in DOMAIN tasks :
        /\ tasks[t1].op = "callback"
        /\ tasks[t1].outcome = "StateMismatch"
        /\ tasks[t1].sent = NoMessage
        /\ tasks[t2].op = "callback"
        /\ tasks[t2].validated
        /\ tasks[t2].sent.kind = "post"
        /\ tasks[t2].integration # "hubspot"
        /\ KeyOfCall(tasks[t2], "del_state") \notin DOMAIN store
        /\ "del_state" \notin tasks[t2].todo

\* the credential keys of the triples served concurrently
ConcurrentCredentialKeys ==
    {RedisKey(integration, "credentials", org_id, user_id) :
        integration \in Integrations, org_id \in Orgs, user_id \in ConcurrentUsers}

\* this step writes a payload under the key
CredentialWritten(key) ==
    /\ key \in DOMAIN store'
    /\ key \in DOMAIN store => store'[key].val # store[key].val

\* a payload is written by a step of a running callback whose POST has been
\* answered and whose calls issued together have all completed
C22_StoredAfterJoin ==
    \A key \in ConcurrentCredentialKeys :
        CredentialWritten(key) =>
            \E t \in DOMAIN tasks :
                /\ tasks'[t] # tasks[t]
                /\ tasks[t].op = "callback"
                /\ CredentialsKeyOf(tasks[t].integration, tasks[t].user_id,
                                    tasks[t].org_id) = key
                /\ tasks[t].outcome = "running"
                /\ tasks[t].sent.kind = "post"
                /\ tasks[t].resp # NoResponse
                /\ tasks[t].todo = {}

\* a callback one of whose gathered calls failed has failed and stored nothing
C22_FailedStoresNothing ==
    \A t \in DOMAIN tasks :
        tasks[t].outcome = "CallFailed" =>
            /\ tasks[t].pc = "done"
            /\ tasks[t].payload = PyNone

\* C22: Fan-out/fan-in structure.  In the notion and airtable callbacks the
\* credential payload is stored only after both the POST to the token
\* endpoint and the concurrently issued deletions have completed; if any one
\* of these concurrently issued calls fails, the callback fails and no
\* credential payload is stored.
C22_FanOutFanIn ==
    []C22_FailedStoresNothing /\ [][C22_StoredAfterJoin]_vars

\* the POST of a callback was answered, a deletion issued with it failed, and
\* no payload is stored for the triple
C22_Witness ==
    \E t \in DOMAIN tasks :
        /\ tasks[t].integration \in {"notion", "airtable"}
        /\ tasks[t].outcome = "CallFailed"
        /\ tasks[t].sent.kind = "post"
        /\ CredentialsKeyOf(tasks[t].integration, tasks[t].user_id,
                            tasks[t].org_id) \notin DOMAIN store

\* the keys of a triple
KeysOfTriple(integration, user_id, org_id) ==
    {StateKeyOf(integration, user_id, org_id),
     VerifierKeyOf(integration, user_id, org_id),
     CredentialsKeyOf(integration, user_id, org_id)}

\* the triples a caller can name
Triples == Integrations \X (Users \cup SeparatorUsers) \X (Orgs \cup SeparatorOrgs)

\* the request this step serves names a triple, and the step leaves the keys
\* of every other triple as they were
C23_OtherTriplesUntouched ==
    (/\ last = Idle
     /\ last'.op \in {"authorize", "callback", "credentials"}
     /\ last'.user_id # None
     /\ last'.org_id # None) =>
        \A T \in Triples :
            T # <<last'.integration, last'.user_id, last'.org_id>> =>
                \A key \in KeysOfTriple(T[1], T[2], T[3]) :
                    /\ key \in DOMAIN store' <=> key \in DOMAIN store
                    /\ key \in DOMAIN store => store'[key] = store[key]

\* C23: Cross-triple independence.  For any two distinct (integration,
\* user_id, org_id) triples an operation performed for one triple leaves the
\* stored state record, verifier and credential payload of the other triple
\* untouched; distinct triples never map to the same cache key.
C23_CrossTripleIndependence == [][C23_OtherTriplesUntouched]_vars

\* a callback whose POST has been sent has no POST left to send
C24_OnePost ==
    \A t \in DOMAIN tasks :
        tasks[t].sent.kind = "post" => "post" \notin tasks[t].todo

\* no step issues again a call a handler has made, sends a second request to
\* the token endpoint, or restarts a handler that has returned or raised
C24_NothingRepeated ==
    \A t \in DOMAIN tasks :
        /\ tasks[t].sent.kind = "post" => tasks'[t].sent = tasks[t].sent
        /\ tasks'[t].todo \subseteq
              tasks[t].todo \cup (IF ~tasks[t].validated /\ tasks'[t].validated
                                   THEN ExchangeCallsOf(tasks[t].integration)
                                   ELSE {})
        /\ tasks[t].pc = "done" =>
              /\ tasks'[t].pc = "done"
              /\ tasks'[t].outcome = tasks[t].outcome
              /\ tasks'[t].payload = tasks[t].payload

\* C24: No automatic retry.  A single callback invocation issues at most one
\* POST to the token endpoint; a failure of validation, of the token exchange
\* or of a credential retrieval is propagated to the caller without the core
\* repeating any provider or cache call.
C24_NoRetry == []C24_OnePost /\ [][C24_NothingRepeated]_vars

\* the token endpoint refused the one POST of a callback, which has failed
\* with no call left to make
C24_Witness ==
    \E t \in DOMAIN tasks :
        /\ tasks[t].op = "callback"
        /\ tasks[t].outcome = "TokenExchangeFailed"
        /\ tasks[t].sent.kind = "post"
        /\ tasks[t].pc = "done"
        /\ tasks[t].todo = {}

\* the keys of the state records
StateKeys ==
    {StateKeyOf(integration, user_id, org_id) :
        integration \in Integrations, user_id \in Users, org_id \in Orgs}

\* store_credentials and get_credentials, called for any triple on the store
\* as it is, leave every state record as it is
C25_HelpersKeepStateRecords ==
    last = Idle =>
        \A key \in StateKeys \cap DOMAIN store :
            \A integration \in Integrations, user_id \in Users, org_id \in Orgs :
                /\ \A credentials \in TokenPayloads :
                      LET st == StoreCredentials(store, integration, user_id,
                                                 org_id, credentials)
                      IN  key \in DOMAIN st /\ st[key] = store[key]
                /\ LET a == GetCredentials(store, integration, user_id, org_id)
                   IN  key \in DOMAIN a.store /\ a.store[key] = store[key]

\* a state record goes only by the deletion of a validated callback for its
\* triple or by expiry, and its value changes only by an authorize call for
\* its triple
C25_StateRecordFrame ==
    \A key \in StateKeys \cap DOMAIN store :
        /\ key \notin DOMAIN store' =>
              \/ last'.op = "tick" /\ key \in last'.expired
              \/ /\ last'.op = "callback"
                 /\ last'.validated
                 /\ key = StateKeyOf(last'.integration, last'.user_id, last'.org_id)
        /\ (key \in DOMAIN store' /\ store'[key].val # store[key].val) =>
              /\ last'.op = "authorize"
              /\ key = StateKeyOf(last'.integration, last'.user_id, last'.org_id)

\* C25: A state record is never mutated once created.  validate_state,
\* store_credentials and get_credentials leave the stored value of every
\* state record unchanged; a record only disappears (callback deletion or
\* expiry) or is replaced as a whole by a new authorize call for the same
\* triple.
C25_StateRecordImmutable ==
    []C25_HelpersKeepStateRecords /\ [][C25_StateRecordFrame]_vars

\* a hubspot callback validated the state and stored the payload, and the
\* state record it validated is still the one the authorize call wrote
C25_Witness ==
    /\ last.op = "callback"
    /\ last.integration = "hubspot"
    /\ last.outcome = "ok"
    /\ CredentialsKeyOf("hubspot", last.user_id, last.org_id) \in DOMAIN store
    /\ GetValue(store, StateKeyOf("hubspot", last.user_id, last.org_id)) = last.state

\* C26: Per-item failure isolation in item listing.  For each provider
\* adapter's get_items, when normalizing one record of a batch raises, that
\* record is skipped and counted as an error, every other record of the
\* batch is still returned, and the call as a whole does not fail.
C26_PerItemIsolation ==
    last.op = "get_items" =>
        /\ last.outcome = "ok"
        /\ Len(last.items) + last.errors = Len(last.batch)
        /\ last.errors = ErrorsOf(last.integration, last.batch)

\* C27: TTL invariant.  In every reachable state, including the states
\* reached when a handler fails or is cancelled between the SET and the
\* EXPIRE of add_key_value or when a key is overwritten, every state,
\* verifier and credential key in the cache carries a TTL.
C27_EveryKeyHasTtl ==
    \A key \in DOMAIN store : store[key].ttl # NoExpiry

\* the credential keys
CredentialKeys ==
    {CredentialsKeyOf(integration, user_id, org_id) :
        integration \in Integrations, user_id \in Users, org_id \in Orgs}

\* the state parameter is the content, in the integration's encoding, of a
\* live state record that an authorize call wrote for the triple it names
PresentsLiveState(st, integration, state) ==
    \E user_id \in Users, org_id \in Orgs :
        LET key == StateKeyOf(integration, user_id, org_id)
        IN  /\ key \in DOMAIN st
            /\ state = Encode(integration, JsonLoads(st[key].val))
            /\ DictGet(JsonLoads(st[key].val), "user_id") = user_id
            /\ DictGet(JsonLoads(st[key].val), "org_id") = org_id

\* a callback whose state is forged, was never issued or has expired does not
\* validate and leaves the store as it is
C28_ForgedWritesNothing ==
    last = Idle =>
        \A integration \in Integrations :
            \A req \in AnyRequests(integration), resp \in TokenResponses :
                ~PresentsLiveState(store, integration, req.state) =>
                    LET a == Callback(store, integration, req, resp)
                    IN  ~a.validated /\ a.store = store

\* a credential payload is written by a validated callback for the triple of
\* the key, whose state is that of the live record of the triple
C28_WrittenByValidated ==
    \A key \in CredentialKeys :
        (/\ key \in DOMAIN store'
         /\ key \in DOMAIN store => store'[key].val # store[key].val) =>
            /\ last'.op = "callback"
            /\ last'.validated
            /\ key = CredentialsKeyOf(last'.integration, last'.user_id, last'.org_id)
            /\ PresentsLiveState(store, last'.integration, last'.state)
            /\ StateKeyOf(last'.integration, last'.user_id, last'.org_id)
                  \in DOMAIN store

C29_DeletesWhatItReturned ==
    \A t \in DOMAIN tasks :
        (/\ tasks[t].op = "credentials"
         /\ tasks[t].pc = "delete"
         /\ tasks'[t].pc = "done") =>
            LET key == CredentialsKeyOf(tasks[t].integration, tasks[t].user_id,
                                        tasks[t].org_id)
            IN  key \in DOMAIN store =>
                    JsonLoads(store[key].val) = tasks[t].payload

\* C29: No unread credential payload is lost to a race between one
\* get_credentials call and a callback's store_credentials for the same
\* triple: a payload is removed from the cache only after it was returned to
\* a caller, was overwritten by a newer payload, or expired; the delete step
\* of get_credentials never removes a payload that this call did not return.
C29_NoUnreadPayloadLost == [][C29_DeletesWhatItReturned]_vars

\* the record a callback's deletion removes is the one the callback read
C30_DeletesWhatItValidated ==
    \A t \in DOMAIN tasks :
        \A call \in {"del_state", "del_verifier"} :
            LET key == KeyOfCall(tasks[t], call)
            IN  (/\ tasks[t].op = "callback"
                 /\ call \in tasks[t].todo
                 /\ call \notin tasks'[t].todo
                 /\ key \in DOMAIN store
                 /\ key \notin DOMAIN store') =>
                    store[key].val = IF call = "del_state"
                                     THEN tasks[t].saved_state
                                     ELSE tasks[t].code_verifier

\* C30: A callback deletes only the state record it validated.  When an
\* authorize call for the same triple overlaps a notion or airtable
\* callback, the callback's delete never removes the state record (or
\* verifier) written by an authorize call that ran after the callback's
\* validation read, so the newer authorization attempt stays valid.
C30_DeletesOnlyValidatedRecord == [][C30_DeletesWhatItValidated]_vars

\* the verifier authorize_airtable generated together with this CSRF token,
\* as the store holds it
PairedVerifier(token) ==
    LET k == CHOOSE k \in 1..rng : TokenUrlsafe(k) = token
    IN  RawText(TokenUrlsafe(k + 1))

\* C31: State and verifier stay paired.  Under any interleaving of airtable
\* authorize calls and callbacks for one triple, whenever a callback passes
\* validation for the state issued by authorization attempt A, the
\* code_verifier it sends is the one generated by attempt A, never absent and
\* never the one of another attempt.
C31_StateVerifierPaired ==
    \A t \in DOMAIN tasks :
        (/\ tasks[t].op = "callback"
         /\ tasks[t].integration = "airtable"
         /\ tasks[t].validated
         /\ tasks[t].sent.kind = "post") =>
            tasks[t].sent.items.code_verifier =
                PairedVerifier(DictGet(DecodeState("airtable", tasks[t].state),
                                       "state"))

\* the outcomes that reject a callback with HTTP 400 for its state parameter
StateRejections ==
    {"MissingCodeOrState", "InvalidStateFormat", "MissingStateFields",
     "StateMismatch"}

\* C32: Callback rejection is total.  For every callback request, whatever
\* the state parameter is (absent, not decodable, decodable but not an
\* object, missing fields, unknown triple), the callback ends either in
\* success or in a rejected callback of one of the state-validation error
\* kinds (HTTP 400); no other exception escapes for hubspot, notion or
\* airtable.
C32_RejectionTotal ==
    (/\ last.op = "callback"
     /\ last.error = None
     /\ last.code # None
     /\ ~last.validated) => last.outcome \in StateRejections

\* the callbacks the handlers turn away at once: those that carry the
\* provider's error parameter and, for hubspot, those without code or state
EarlyRequests(integration) ==
    [error : {"access_denied"}, code : {None, "c1"},
     state : {NoneText, Garbage} \cup IssuedLooking(integration, rng)]
        \cup (IF integration # "hubspot" THEN {}
              ELSE [error : {None}, code : {None, ""},
                    state : {NoneText} \cup IssuedLooking(integration, rng)]
                     \cup [error : {None}, code : {"c1"}, state : {NoneText}])

\* on every store such a callback is rejected whatever the store holds, with
\* the store as it was and nothing sent, so that every later callback is
\* answered as it would have been
C33_RejectedAtOnce ==
    last = Idle =>
        \A integration \in Integrations :
            \A req \in EarlyRequests(integration), resp \in TokenResponses :
                LET a == Callback(store, integration, req, resp)
                IN  /\ a.outcome \in {"OAuthError", "MissingCodeOrState"}
                    /\ a.outcome = Callback(<< >>, integration, req, resp).outcome
                    /\ ~a.validated
                    /\ a.sent = NoMessage
                    /\ a.store = store

\* C33: Early callback rejection leaves the store unchanged.  A callback
\* that carries the provider's 'error' parameter (for all three providers),
\* or that lacks code or state (hubspot), is rejected with HTTP 400 before any
\* cache read, write or delete and before any token-exchange request, so a
\* pending state record stays valid for a later callback.
C33_EarlyRejection ==
    /\ C33_RejectedAtOnce
    /\ (last.op = "callback" /\ last.outcome \in {"OAuthError", "MissingCodeOrState"}) =>
          /\ ~last.validated
          /\ last.sent = NoMessage

\* the provider's error redirect, carrying the state of a pending record,
\* was rejected, and the record is still there for a later callback
C33_Witness ==
    /\ last.op = "callback"
    /\ last.outcome = "OAuthError"
    /\ last.error = "access_denied"
    /\ PresentsLiveState(store, last.integration, last.state)
    /\ Callback(store, last.integration, Req(last.state),
                CHOOSE r \in TokenResponses : r.status = 200).validated

\* C34: A failing authorize leaves the store unchanged.  Whenever
\* BaseIntegration.authorize raises (for example NotImplementedError for an
\* integration other than hubspot), no state record has been created or
\* overwritten for the triple.
C34_FailingAuthorizeKeepsStore ==
    (last.op = "authorize" /\ last.outcome # "ok") =>
        GetValue(store, StateKeyOf(last.integration, last.user_id, last.org_id))
            = last.before

\* the bases of the pages, one page after the other
RECURSIVE Concatenation(_)
Concatenation(pages) ==
    IF pages = << >> THEN << >>
    ELSE pages[1].bases \o Concatenation(Tail(pages))

\* the listing stops at the first page that has no offset or is refused, it
\* returns when and only when that page was answered with 200, and then with
\* the bases of all the pages in the order they were fetched
C35_Now ==
    \A t \in DOMAIN tasks :
        tasks[t].op = "fetch_bases" =>
            LET f == tasks[t].fetched IN
            /\ \A i \in 1..(Len(f) - 1) : f[i].status = 200 /\ ~Falsy(f[i].offset)
            /\ tasks[t].pc = "done" <=>
                  (f # << >> /\ (f[Len(f)].status # 200 \/ Falsy(f[Len(f)].offset)))
            /\ tasks[t].outcome = "ok" <=>
                  (tasks[t].pc = "done" /\ \A i \in 1..Len(f) : f[i].status = 200)
            /\ tasks[t].outcome = "Exception" <=>
                  (f # << >> /\ f[Len(f)].status # 200)
            /\ tasks[t].outcome = "ok" =>
                  tasks[t].aggregated_response = Concatenation(f)

\* each request carries the offset of the page before it, and no request
\* follows the last page
C35_Step ==
    \A t \in DOMAIN tasks :
        (tasks[t].op = "fetch_bases" /\ tasks'[t] # tasks[t]) =>
            /\ tasks[t].pc = "get"
            /\ tasks[t].fetched # << >> =>
                  tasks[t].offset = tasks[t].fetched[Len(tasks[t].fetched)].offset

\* C35: Airtable base pagination.  fetch_bases_async terminates as soon as
\* the provider returns a page without an offset, at which point the
\* aggregated list is the concatenation of the 'bases' of all fetched pages
\* in fetch order; a non-200 response on any page makes the call raise
\* instead of returning a partial list as complete.
C35_Pagination == []C35_Now /\ [][C35_Step]_vars

\* three pages were fetched, each with bases, and the listing returned them
C35_Witness ==
    \E t \in DOMAIN tasks :
        /\ tasks[t].op = "fetch_bases"
        /\ tasks[t].outcome = "ok"
        /\ Len(tasks[t].fetched) = MaxPages
        /\ \A i \in 1..MaxPages : tasks[t].fetched[i].bases # << >>
        /\ Len(tasks[t].aggregated_response) > MaxPages

====
